---- MODULE Spec2Model ----
(***************************************************************************)
(* Model of traceTM-efreder3.py: breadth-first simulation of a             *)
(* nondeterministic single-tape Turing machine (move, trace, bfs).         *)
(* Python strings are sequences of one-character strings; a configuration  *)
(* is the tuple <<left, state, right>>; queue[d + 1] is Python's queue[d]. *)
(***************************************************************************)
EXTENDS Integers, Sequences, FiniteSets, TLC

\* ------------------------------------------------------------------ bounds
MaxSteps == 5
MaxNegSteps == 2
MaxInputLen == 2
MaxTapeLen == 2

\* ------------------------------------------------------- machine universe
Blank == "_"

States == {"q0", "q1", "qa", "qr"}

InputSymbols == {"1"}

Inputs == UNION {[1..n -> InputSymbols] : n \in 0..MaxInputLen}

StepBounds == (0 - MaxNegSteps)..MaxSteps

\* (start, accept, reject) as read_file returns them; the accept list is only
\* ever used for membership, so it is a set here.
Starts == {"q0", "qr"}

AcceptSets == {{"qa"}, {"q0"}, {"qa", "qr"}}

Rejects == {"qr"}

\* The rule lists a machine file may give for each (state, symbol) key, in
\* file order; <<>> is a key the file does not mention.
Options(key) ==
    CASE key = <<"q0", "1">> ->
            { <<>>,
              << <<"q1", "1", "R">> >>,
              << <<"qr", "1", "R">> >>,
              << <<"q1", "1", "R">>, <<"q0", "_", "R">> >> }
      [] key = <<"q0", "_">> ->
            { <<>>,
              << <<"q1", "_", "L">> >>,
              << <<"qa", "1", "L">> >>,
              << <<"q0", "_", "L">>, <<"qa", "_", "R">> >> }
      [] key = <<"q1", "1">> ->
            { <<>>,
              << <<"q0", "1", "R">> >>,
              << <<"q0", "1", "L">> >>,
              << <<"q0", "1", "L">>, <<"q1", "_", "R">> >> }
      [] key = <<"q1", "_">> ->
            { <<>>,
              << <<"qa", "_", "R">> >>,
              << <<"q0", "1", "L">> >>,
              << <<"q1", "_", "L">>, <<"qa", "_", "L">> >> }
      [] key = <<"qr", "1">> ->
            { <<>>,
              << <<"qr", "1", "R">> >> }

Keys == {<<"q0", "1">>, <<"q0", "_">>, <<"q1", "1">>, <<"q1", "_">>,
         <<"qr", "1">>}

Tables == {t \in [Keys -> UNION {Options(k) : k \in Keys}] :
              \A k \in Keys : t[k] \in Options(k)}

\* Tape symbols, tape halves and directions a call of move may be given.
TapeSymbols == {"0", "1", "_"}

TapeHalves == UNION {[1..n -> TapeSymbols] : n \in 0..MaxTapeLen}

Directions == {"L", "R"}

\* The two-state parity machine of the specification's example.
ParityTable ==
    [k \in Keys |->
        CASE k = <<"q0", "1">> -> << <<"q1", "1", "R">> >>
          [] k = <<"q1", "1">> -> << <<"q0", "1", "R">> >>
          [] OTHER -> <<>>]

\* ---------------------------------------------------------- pure functions
Front(s) == SubSeq(s, 1, Len(s) - 1)

Last(s) == s[Len(s)]

RECURSIVE Reverse(_)
Reverse(s) == IF s = <<>> THEN <<>> ELSE Append(Reverse(Tail(s)), Head(s))

\* Mutant: the collapse test of line 56 looks at right as it was passed in.
moveCollapseOnPassed(left, right, write_char, direction) ==
    LET written == IF right = <<>> THEN <<write_char>>
                   ELSE <<write_char>> \o Tail(right)
    IN  IF direction = "R"
        THEN IF Len(written) > 1
             THEN <<Append(left, written[1]), Tail(written)>>
             ELSE <<Append(left, written[1]), <<Blank>> >>
        ELSE IF left # <<>>
             THEN IF right = <<>> \/ right = <<Blank>>
                  THEN <<left, <<Blank>> >>
                  ELSE <<Front(left), <<Last(left)>> \o written>>
             ELSE <<left, <<Blank>> \o written>>

\* move(left, right, write_char, direction), lines 33-64.
move(left, right, write_char, direction) ==
    LET written == IF right = <<>> THEN <<write_char>>
                   ELSE <<write_char>> \o Tail(right)
    IN  IF direction = "R"
        THEN IF Len(written) > 1
             THEN <<Append(left, written[1]), Tail(written)>>
             ELSE <<Append(left, written[1]), <<Blank>> >>
        ELSE IF left # <<>>
             THEN IF written = <<>> \/ written = <<Blank>>
                  THEN <<left, <<Blank>> >>
                  ELSE <<Front(left), <<Last(left)>> \o written>>
             ELSE <<left, <<Blank>> \o written>>

\* transitions.get((state, curr), []), line 113.
Get(table, state, curr) ==
    IF <<state, curr>> \in DOMAIN table THEN table[<<state, curr>>] ELSE <<>>

\* curr = right[0] if right else "_", line 110.
Curr(right) == IF right # <<>> THEN right[1] ELSE Blank

\* before[next_transition] = transition, lines 119 and 128.
SetParent(parent, child, par) ==
    [c \in DOMAIN parent \cup {child} |-> IF c = child THEN par ELSE parent[c]]

\* ------------------------------------------------------------------- state
VARIABLES start, accept, reject, transitions, input, max_steps,
          total, queue, before, depth, idx, mi, pc, transition, path, result,
          call_left, call_right, call_write, call_direction, call_result

params == <<start, accept, reject, transitions, input, max_steps>>

\* The arguments and the return value of a call of move on its own.
call == <<call_left, call_right, call_write, call_direction, call_result>>

vars == <<start, accept, reject, transitions, input, max_steps,
          total, queue, before, depth, idx, mi, pc, transition, path, result,
          call_left, call_right, call_write, call_direction, call_result>>

NoResult == [check |-> FALSE, steps |-> 0, total |-> 0, path |-> <<>>]

\* queue[d] of the program.
Level(d) == queue[d + 1]

\* Mutant: the frontier is scanned from its end.
CurrentFromEnd == Level(depth)[Len(Level(depth)) + 1 - idx]

\* The configuration the inner for loop of line 97 is at.
Current == Level(depth)[idx]

\* The initial configuration, line 88.
InitialConfig == << <<>>, start, input >>

\* Mutant: the initial configuration is never tested for acceptance.
IsAcceptingNotInitial(c) == c[2] \in accept /\ c # InitialConfig

\* state in accept, line 101.
IsAccepting(c) == c[2] \in accept

\* Mutant: the reject state is not pruned.
IsRejectNever(c) == FALSE

\* state == reject, line 106.
IsReject(c) == c[2] = reject

\* Mutant: the loop runs over range(max_steps - 1).
RangeDoneEarly == depth >= max_steps - 1

\* range(max_steps) of line 92 has no further value.
RangeDone == depth >= max_steps

\* moves of line 113 for configuration c.
Moves(c) == Get(transitions, c[2], Curr(c[3]))

\* Mutant: the implicit reject successor restarts on a blank cell.
RejectSuccessorBlank(c) == <<c[1], reject, <<Blank>> >>

\* next_transition of line 117.
RejectSuccessor(c) == <<c[1], reject, c[3]>>

\* next_transition of lines 125-126 for rule m of configuration c.
MoveSuccessor(c, m) ==
    LET tape == move(c[1], c[3], m[2], m[3])
    IN  <<tape[1], m[1], tape[2]>>

\* State at entry of bfs, after lines 87-89.
Init ==
    /\ start \in Starts
    /\ accept \in AcceptSets
    /\ reject \in Rejects
    /\ input \in Inputs
    /\ \/ /\ transitions \in Tables
          /\ max_steps \in StepBounds
       \/ /\ transitions = ParityTable
          /\ max_steps = 10
    /\ total = 0
    /\ queue = << <<InitialConfig>> >>
    /\ before = << >>
    /\ depth = 0
    /\ idx = 1
    /\ mi = 1
    /\ pc = "for_depth"
    /\ transition = InitialConfig
    /\ path = <<>>
    /\ result = NoResult
    /\ call_left = <<>>
    /\ call_right = <<>>
    /\ call_write = Blank
    /\ call_direction = "R"
    /\ call_result = <<>>

\* Mutant: the last value of the loop variable is returned as the depth.
ReturnStepBoundLastDepth ==
    /\ pc = "for_depth"
    /\ RangeDone
    /\ result' = [check |-> FALSE, steps |-> depth - 1, total |-> total,
                  path |-> <<>>]
    /\ pc' = "done"
    /\ UNCHANGED <<call, params, total, queue, before, depth, idx, mi, transition, path>>

\* Line 131: range(max_steps) is used up.
ReturnStepBound ==
    /\ pc = "for_depth"
    /\ RangeDone
    /\ result' = [check |-> FALSE, steps |-> max_steps, total |-> total,
                  path |-> <<>>]
    /\ pc' = "done"
    /\ UNCHANGED <<call, params, total, queue, before, depth, idx, mi, transition, path>>

\* Lines 93-94: the frontier of this level is empty.
ReturnExhausted ==
    /\ pc = "for_depth"
    /\ ~RangeDone
    /\ Level(depth) = <<>>
    /\ result' = [check |-> FALSE, steps |-> depth, total |-> total,
                  path |-> <<>>]
    /\ pc' = "done"
    /\ UNCHANGED <<call, params, total, queue, before, depth, idx, mi, transition, path>>

\* Lines 92-95: a level with a non-empty frontier begins.
BeginLevel ==
    /\ pc = "for_depth"
    /\ ~RangeDone
    /\ Level(depth) # <<>>
    /\ queue' = Append(queue, <<>>)
    /\ idx' = 1
    /\ mi' = 1
    /\ pc' = "for_transition"
    /\ UNCHANGED <<call, params, total, before, depth, transition, path, result>>

\* Line 97 runs out of configurations: the next iteration of line 92.
EndLevel ==
    /\ pc = "for_transition"
    /\ idx > Len(Level(depth))
    /\ depth' = depth + 1
    /\ pc' = "for_depth"
    /\ UNCHANGED <<call, params, total, queue, before, idx, mi, transition, path, result>>

\* Lines 101-102 and 74: an accepting configuration; trace begins.
Accept ==
    /\ pc = "for_transition"
    /\ idx <= Len(Level(depth))
    /\ IsAccepting(Current)
    /\ transition' = Current
    /\ path' = <<Current>>
    /\ pc' = "trace"
    /\ UNCHANGED <<call, params, total, queue, before, depth, idx, mi, result>>

\* Lines 106-107: a configuration in the reject state is skipped.
SkipReject ==
    /\ pc = "for_transition"
    /\ idx <= Len(Level(depth))
    /\ ~IsAccepting(Current)
    /\ IsReject(Current)
    /\ idx' = idx + 1
    /\ UNCHANGED <<call, params, total, queue, before, depth, mi, pc, transition, path, result>>

\* Mutant: a configuration without an applicable rule is dropped.
NoMovesDropped ==
    /\ pc = "for_transition"
    /\ idx <= Len(Level(depth))
    /\ ~IsAccepting(Current)
    /\ ~IsReject(Current)
    /\ Moves(Current) = <<>>
    /\ idx' = idx + 1
    /\ UNCHANGED <<call, params, total, queue, before, depth, mi, pc, transition, path, result>>

\* Mutant: the implicit reject successor is not counted.
NoMovesUncounted ==
    /\ pc = "for_transition"
    /\ idx <= Len(Level(depth))
    /\ ~IsAccepting(Current)
    /\ ~IsReject(Current)
    /\ Moves(Current) = <<>>
    /\ LET next_transition == RejectSuccessor(Current)
       IN  /\ queue' = [queue EXCEPT ![depth + 2] = Append(@, next_transition)]
           /\ before' = SetParent(before, next_transition, Current)
    /\ idx' = idx + 1
    /\ UNCHANGED <<call, params, total, depth, mi, pc, transition, path, result>>

\* Lines 110-121: no rule applies; the implicit reject successor.
NoMoves ==
    /\ pc = "for_transition"
    /\ idx <= Len(Level(depth))
    /\ ~IsAccepting(Current)
    /\ ~IsReject(Current)
    /\ Moves(Current) = <<>>
    /\ LET next_transition == RejectSuccessor(Current)
       IN  /\ queue' = [queue EXCEPT ![depth + 2] = Append(@, next_transition)]
           /\ before' = SetParent(before, next_transition, Current)
    /\ total' = total + 1
    /\ idx' = idx + 1
    /\ UNCHANGED <<call, params, depth, mi, pc, transition, path, result>>

\* Lines 110-113 and one iteration of lines 124-129: rule number mi of the
\* current configuration produces its successor.
ApplyMove ==
    /\ pc = "for_transition"
    /\ idx <= Len(Level(depth))
    /\ ~IsAccepting(Current)
    /\ ~IsReject(Current)
    /\ LET moves == Moves(Current)
       IN  /\ moves # <<>>
           /\ LET next_transition == MoveSuccessor(Current, moves[mi])
              IN  /\ queue' = [queue EXCEPT ![depth + 2] = Append(@, next_transition)]
                  /\ before' = SetParent(before, next_transition, Current)
           /\ IF mi = Len(moves)
              THEN idx' = idx + 1 /\ mi' = 1
              ELSE idx' = idx /\ mi' = mi + 1
    /\ total' = total + 1
    /\ UNCHANGED <<call, params, depth, pc, transition, path, result>>

\* Every element of path but the last is a key of before, so once path is
\* longer than the number of keys plus one the walk of lines 75-77 has
\* visited a key twice.  before does not change during the walk: from there
\* the loop never exits and path grows until memory is exhausted.
TraceCut == Len(path) > Cardinality(DOMAIN before) + 1

\* Lines 75-77: one iteration of the while loop of trace.
TraceStep ==
    /\ pc = "trace"
    /\ transition \in DOMAIN before
    /\ ~TraceCut
    /\ transition' = before[transition]
    /\ path' = Append(path, before[transition])
    /\ UNCHANGED <<call, params, total, queue, before, depth, idx, mi, pc, result>>

\* Lines 75-77 on a cycle of parent links: the loop appends to path without
\* end; the interpreter ends it with MemoryError and bfs returns nothing.
TraceOverflow ==
    /\ pc = "trace"
    /\ transition \in DOMAIN before
    /\ TraceCut
    /\ pc' = "MemoryError"
    /\ UNCHANGED <<call, params, total, queue, before, depth, idx, mi, transition, path, result>>

\* Lines 78 and 103: trace returns the reversed path, bfs returns Accepted.
ReturnAccepted ==
    /\ pc = "trace"
    /\ transition \notin DOMAIN before
    /\ result' = [check |-> TRUE, steps |-> depth, total |-> total,
                  path |-> Reverse(path)]
    /\ pc' = "done"
    /\ UNCHANGED <<call, params, total, queue, before, depth, idx, mi, transition, path>>

Next ==
    \/ ReturnStepBound
    \/ ReturnExhausted
    \/ BeginLevel
    \/ EndLevel
    \/ Accept
    \/ SkipReject
    \/ NoMoves
    \/ ApplyMove
    \/ TraceStep
    \/ TraceOverflow
    \/ ReturnAccepted

Spec == Init /\ [][Next]_vars

\* The interpreter runs the program on: a step that can be taken is taken.
FairSpec == Spec /\ WF_vars(Next)

\* ------------------------------------------------------- move on its own
\* A call move(left, right, write_char, direction) about to be made, with
\* one-character write_char; no bfs run is in progress.
MoveInit ==
    /\ call_left \in TapeHalves
    /\ call_right \in TapeHalves
    /\ call_write \in TapeSymbols
    /\ call_direction \in Directions
    /\ call_result = <<>>
    /\ pc = "move"
    /\ start = "q0"
    /\ accept = {"qa"}
    /\ reject = "qr"
    /\ transitions = ParityTable
    /\ input = <<>>
    /\ max_steps = 0
    /\ total = 0
    /\ queue = << <<InitialConfig>> >>
    /\ before = << >>
    /\ depth = 0
    /\ idx = 1
    /\ mi = 1
    /\ transition = InitialConfig
    /\ path = <<>>
    /\ result = NoResult

\* Lines 33-64: the call returns (left, right).
CallMove ==
    /\ pc = "move"
    /\ call_result' = move(call_left, call_right, call_write, call_direction)
    /\ pc' = "moved"
    /\ UNCHANGED <<params, total, queue, before, depth, idx, mi, transition,
                   path, result, call_left, call_right, call_write,
                   call_direction>>

MoveNext == CallMove

MoveSpec == MoveInit /\ [][MoveNext]_vars

\* ------------------------------------------- the configuration tree itself
\* The successors one Step Engine step gives configuration c: none in the
\* reject state, the implicit reject successor when no rule applies, else one
\* per rule.
Successors(c) ==
    IF c[2] = reject THEN {}
    ELSE IF Moves(c) = <<>> THEN {<<c[1], reject, c[3]>>}
    ELSE {MoveSuccessor(c, Moves(c)[i]) : i \in 1..Len(Moves(c))}

\* The configurations k steps from the initial one; a branch ends at an
\* accept state and at the reject state.
RECURSIVE TreeLevel(_)
TreeLevel(k) ==
    IF k = 0 THEN {InitialConfig}
    ELSE UNION {Successors(c) : c \in {x \in TreeLevel(k - 1) : x[2] \notin accept}}

AcceptingAt(k) == \E c \in TreeLevel(k) : c[2] \in accept

AcceptReachableWithin(n) == \E k \in 0..n : AcceptingAt(k)

Returned == pc = "done"

ReturnedAccepted == pc = "done" /\ result.check

RECURSIVE SumLen(_)
SumLen(q) == IF q = <<>> THEN 0 ELSE Len(Head(q)) + SumLen(Tail(q))

\* ------------------------------------------------------------------ claims

\* C1: every run of bfs, path reconstruction included, terminates: it
\* eventually returns.  Stated under FairSpec.
C1_Terminates == <>(pc = "done")

C3_ShallowestDepth ==
    ReturnedAccepted =>
        /\ \A l \in 0..(result.steps - 1) :
              \A i \in 1..Len(Level(l)) : Level(l)[i][2] \notin accept
        /\ AcceptingAt(result.steps)
        /\ \A k \in 0..(result.steps - 1) : ~AcceptingAt(k)

\* C3 witness: acceptance below the top, in a frontier of several
\* configurations of which the accepting one is not the first.
C3_Witness ==
    /\ ReturnedAccepted
    /\ result.steps >= 2
    /\ Len(Level(result.steps)) >= 2
    /\ Level(result.steps)[1][2] \notin accept

\* C4: an Accepted return at depth d carries a path of exactly d + 1
\* configurations, from the initial configuration to the accepting one, each
\* a successor of the one before it.
C4_PathIsBranch ==
    ReturnedAccepted =>
        /\ Len(result.path) = result.steps + 1
        /\ result.path[1] = InitialConfig
        /\ Last(result.path)[2] \in accept
        /\ \A i \in 1..(Len(result.path) - 1) :
              result.path[i + 1] \in Successors(result.path[i])

\* The successors configuration c has appended when all its rules are done.
Produced(c) ==
    IF IsAccepting(c) \/ IsReject(c) THEN 0
    ELSE IF Moves(c) = <<>> THEN 1 ELSE Len(Moves(c))

RECURSIVE SumProduced(_)
SumProduced(f) ==
    IF f = <<>> THEN 0 ELSE Produced(Head(f)) + SumProduced(Tail(f))

RECURSIVE SumProducedLevels(_)
SumProducedLevels(q) ==
    IF q = <<>> THEN 0 ELSE SumProduced(Head(q)) + SumProducedLevels(Tail(q))

\* The successors produced by the configurations processed so far: the whole
\* frontiers below depth, the part of this frontier before idx, and the
\* mi - 1 rules already applied to the current configuration.
ProducedSoFar ==
    LET below == SumProducedLevels(SubSeq(queue, 1, depth))
        here  == IF pc = "for_depth" \/ depth + 1 > Len(queue) THEN 0
                 ELSE SumProduced(SubSeq(Level(depth), 1, idx - 1)) + (mi - 1)
    IN  below + here

\* C5: the counter equals the number of successors appended to frontiers so
\* far, which is the sum of the successors produced by the processed
\* configurations, and the returned total is the counter.
C5_TotalCountsSuccessors ==
    /\ total = SumLen(Tail(queue))
    /\ pc \in {"for_depth", "for_transition", "trace"} => total = ProducedSoFar
    /\ Returned => result.total = total

\* C5 witness: a return after both implicit reject successors and rule
\* successors were counted.
C5_Witness ==
    /\ Returned
    /\ result.total >= 3
    /\ \E l \in 1..Len(queue) : \E i \in 1..Len(queue[l]) :
          /\ ~IsAccepting(queue[l][i]) /\ ~IsReject(queue[l][i])
          /\ Moves(queue[l][i]) = <<>>
          /\ l < Len(queue)

\* The case of lines 116-121: the configuration under the loop of line 97 is
\* neither accepting nor in the reject state and the table has no entry for
\* its state and the symbol under the head.
NoRuleCase ==
    /\ pc = "for_transition"
    /\ idx <= Len(Level(depth))
    /\ Current[2] \notin accept
    /\ Current[2] # reject
    /\ Get(transitions, Current[2], Curr(Current[3])) = <<>>

\* C6: a processed configuration without an applicable rule contributes
\* exactly one successor to the next frontier: itself in the reject state,
\* both tape halves unchanged.
C6_NoRuleGivesRejectSuccessor ==
    [][NoRuleCase =>
          /\ queue' = [queue EXCEPT ![depth + 2] =
                          Append(@, <<Current[1], reject, Current[3]>>)]
          /\ idx' = idx + 1
          /\ pc' = "for_transition"]_vars

\* C6 witness: the configuration just processed had no rule, a non-empty left
\* and a right of two cells, and its reject successor ends the next frontier.
C6_Witness ==
    /\ pc = "for_transition"
    /\ idx > 1
    /\ LET c == Level(depth)[idx - 1]
       IN  /\ c[2] \notin accept
           /\ c[2] # reject
           /\ Get(transitions, c[2], Curr(c[3])) = <<>>
           /\ c[1] # <<>>
           /\ Len(c[3]) >= 2
           /\ Level(depth + 1) # <<>>
           /\ Last(Level(depth + 1)) = <<c[1], reject, c[3]>>

\* C7: for max_steps <= 0 bfs returns not accepted at depth 0 with total 0
\* and an empty path.
C7_NonPositiveBoundDepthZero ==
    (Returned /\ max_steps <= 0) =>
        result = [check |-> FALSE, steps |-> 0, total |-> 0, path |-> <<>>]

\* C8: the level-0 frontier is the single configuration with empty left, the
\* start state, and right = input, or the lone blank when the input is empty.
C8_InitialFrontier ==
    Level(0) = << << <<>>, start,
                     IF input = <<>> THEN <<Blank>> ELSE input >> >>

\* The machine's only move from (start, symbol under the head) leads to the
\* reject state, the start state is not accepting, and max_steps is 5.
ImmediateRejection ==
    /\ start \notin accept
    /\ max_steps = 5
    /\ LET m == Get(transitions, start, Curr(input))
       IN  Len(m) = 1 /\ m[1][1] = reject

RejectedExhaustedAtTwo ==
    /\ result = [check |-> FALSE, steps |-> 2, total |-> total, path |-> <<>>]
    /\ Len(queue) = 3
    /\ \A i \in 1..Len(Level(1)) : Level(1)[i][2] = reject
    /\ Level(1) # <<>>
    /\ Level(2) = <<>>

\* C9 (as stated): under immediate rejection the level-1 frontier holds only
\* reject-state configurations, the level-2 frontier is empty and bfs returns
\* Rejected-Exhausted at depth 2.
C9_ImmediateRejection ==
    (Returned /\ ImmediateRejection) => RejectedExhaustedAtTwo

\* C9 (amended): the same, for a reject state that is neither an accept state
\* nor the start state.
C9_ImmediateRejectionProperReject ==
    (Returned /\ ImmediateRejection /\ reject \notin accept /\ start # reject)
        => RejectedExhaustedAtTwo

\* C9 witness: such a run has returned.
C9_Witness ==
    /\ Returned /\ ImmediateRejection
    /\ reject \notin accept /\ start # reject
    /\ input # <<>>
    /\ result.steps = 2

\* The parity machine of the example on input "11" with max_steps = 10.
ParityRun ==
    /\ transitions = ParityTable
    /\ start = "q0"
    /\ accept = {"q0"}
    /\ input = <<"1", "1">>
    /\ max_steps = 10

\* C10 (as stated): the parity run returns Accepted at depth 2 with a path of
\* 3 configurations.
C10_ParityDepthTwo ==
    (Returned /\ ParityRun) =>
        result.check /\ result.steps = 2 /\ Len(result.path) = 3

\* C10 (amended): the parity run returns Accepted at depth 0 with a path of
\* the initial configuration alone, the start state being the accept state.
C10_ParityDepthZero ==
    (Returned /\ ParityRun) =>
        /\ result.check
        /\ result.steps = 0
        /\ result.total = 0
        /\ result.path = << << <<>>, "q0", <<"1", "1">> >> >>

\* C10 witness: the parity run has returned.
C10_Witness == Returned /\ ParityRun /\ result.check

\* Every frontier of levels 0..max_steps - 1 exists, is non-empty and holds
\* no configuration in an accept state.
NoAcceptanceNoExhaustion ==
    /\ Len(queue) >= max_steps
    /\ \A l \in 0..(max_steps - 1) :
          /\ Level(l) # <<>>
          /\ \A i \in 1..Len(Level(l)) : Level(l)[i][2] \notin accept

\* C11: for positive max_steps, when the frontiers of levels 0..max_steps - 1
\* are all non-empty and free of accepting configurations, bfs returns not
\* accepted at depth exactly max_steps with an empty path; a non-empty path
\* comes only with Accepted.
C11_StepBoundOutcome ==
    Returned =>
        /\ (max_steps > 0 /\ NoAcceptanceNoExhaustion) =>
              result = [check |-> FALSE, steps |-> max_steps,
                        total |-> total, path |-> <<>>]
        /\ result.path # <<>> => result.check

\* C11 witness: a run that used up a bound of at least 3 levels, the last
\* built frontier holding an accepting configuration that is never examined.
C11_Witness ==
    /\ Returned
    /\ max_steps >= 3
    /\ NoAcceptanceNoExhaustion
    /\ result.steps = max_steps
    /\ \E i \in 1..Len(Level(max_steps)) : Level(max_steps)[i][2] \in accept

\* The configuration under the loop of line 97 is in the reject state and
\* not in an accept state.
RejectCase ==
    /\ pc = "for_transition"
    /\ idx <= Len(Level(depth))
    /\ Current[2] = reject
    /\ Current[2] \notin accept

\* C14: processing a frontier configuration in the reject state (not an
\* accept state) appends nothing to any frontier, adds no parent-map entry and
\* leaves the counter unchanged; the scan moves to the next configuration.
C14_RejectIsPruned ==
    [][RejectCase =>
          /\ queue' = queue
          /\ before' = before
          /\ total' = total
          /\ idx' = idx + 1
          /\ pc' = "for_transition"]_vars

\* C14 witness: the configuration just passed over is in the reject state,
\* had an applicable rule in the table, and was generated, not initial.
C14_Witness ==
    /\ pc = "for_transition"
    /\ depth >= 1
    /\ idx > 1
    /\ idx <= Len(Level(depth)) + 1
    /\ LET c == Level(depth)[idx - 1]
       IN  /\ c[2] = reject
           /\ c[2] \notin accept
           /\ Get(transitions, c[2], Curr(c[3])) # <<>>

\* C15: at the top of level d < max_steps bfs returns (not accepted, depth d)
\* exactly when the frontier of level d is empty; then d >= 1 and every
\* configuration of level d - 1 was in the reject state; and a finished level
\* that held a configuration neither accepting nor in the reject state leaves
\* a non-empty next frontier.
C15_ExhaustedIffEmptyFrontier ==
    [][/\ (pc = "for_depth" /\ depth < max_steps) =>
            /\ (/\ pc' = "done"
                /\ result' = [check |-> FALSE, steps |-> depth,
                              total |-> total, path |-> <<>>])
                  <=> Level(depth) = <<>>
            /\ Level(depth) = <<>> =>
                  /\ depth >= 1
                  /\ \A i \in 1..Len(Level(depth - 1)) :
                        Level(depth - 1)[i][2] = reject
       /\ (pc = "for_transition" /\ pc' = "for_depth") =>
            ((\E i \in 1..Len(Level(depth)) :
                  /\ Level(depth)[i][2] \notin accept
                  /\ Level(depth)[i][2] # reject)
               => Level(depth + 1) # <<>>)]_vars

\* C15 witness: a Rejected-Exhausted return at depth 2 or more, below the
\* bound, after a frontier of several configurations all in the reject state.
C15_Witness ==
    /\ Returned
    /\ ~result.check
    /\ result.steps >= 2
    /\ result.steps < max_steps
    /\ Level(result.steps) = <<>>
    /\ Len(Level(result.steps - 1)) >= 2

\* Following parent links from c reaches a configuration without a parent
\* entry within n links.
RECURSIVE ReachesRoot(_, _)
ReachesRoot(c, n) ==
    \/ c \notin DOMAIN before
    \/ n > 0 /\ ReachesRoot(before[c], n - 1)

\* C16: in every reachable state the parent map is acyclic (parent links from
\* any key end at a configuration without a parent entry) and the initial
\* configuration has no parent entry.
C16_ParentMapAcyclic ==
    /\ InitialConfig \notin DOMAIN before
    /\ \A c \in DOMAIN before : ReachesRoot(c, Cardinality(DOMAIN before))

\* The successors of configuration c in the order they are enqueued.
SuccessorSeq(c) ==
    IF c[2] = reject THEN <<>>
    ELSE IF Moves(c) = <<>> THEN << <<c[1], reject, c[3]>> >>
    ELSE [i \in 1..Len(Moves(c)) |-> MoveSuccessor(c, Moves(c)[i])]

\* The frontier that follows frontier f: parent order, then table order.
RECURSIVE NextFrontier(_)
NextFrontier(f) ==
    IF f = <<>> THEN <<>>
    ELSE SuccessorSeq(Head(f)) \o NextFrontier(Tail(f))

\* An accepting configuration was found: trace is running or has returned.
AcceptanceFound == pc \in {"trace", "MemoryError"} \/ ReturnedAccepted

\* The accepting configuration that was found.
Acceptor == IF pc = "done" THEN Last(result.path) ELSE path[1]

\* C17: the accepting configuration reported is the first configuration in an
\* accept state of the frontier of the acceptance level, every frontier up to
\* that level being in enqueue order: parent order, then table order.
C17_FirstAcceptingWins ==
    AcceptanceFound =>
        /\ \A l \in 1..depth : Level(l) = NextFrontier(Level(l - 1))
        /\ \E i \in 1..Len(Level(depth)) :
              /\ Level(depth)[i] = Acceptor
              /\ Level(depth)[i][2] \in accept
              /\ \A j \in 1..(i - 1) : Level(depth)[j][2] \notin accept

\* C17 witness: an Accepted return whose level holds two different accepting
\* configurations, the first of them reported.
C17_Witness ==
    /\ ReturnedAccepted
    /\ result.steps >= 2
    /\ LET f == Level(result.steps)
       IN  /\ \E i, j \in 1..Len(f) :
                 /\ i < j
                 /\ f[i][2] \in accept
                 /\ f[j][2] \in accept
                 /\ f[i] # f[j]
                 /\ Last(result.path) = f[i]

\* C19: when the start state is an accept state, for every input and every
\* max_steps >= 1 bfs returns Accepted at depth 0 with total 0 and the path
\* of the initial configuration alone.
C19_AcceptingStart ==
    (Returned /\ start \in accept /\ max_steps >= 1) =>
        result = [check |-> TRUE, steps |-> 0, total |-> 0,
                  path |-> <<InitialConfig>>]

\* C19 witness: such a return on a non-empty input whose head symbol has a
\* rule for the start state.
C19_Witness ==
    /\ Returned
    /\ start \in accept
    /\ max_steps >= 1
    /\ input # <<>>
    /\ Get(transitions, start, Curr(input)) # <<>>
    /\ result.check

\* move has returned.
Moved == pc = "moved"

\* C12: every call of move with a one-character write_char, the call with an
\* empty right included, returns a non-empty right, and the tape grows by at
\* most one element in all and in each half.
C12_TapeGrowsByAtMostOne ==
    Moved =>
        /\ call_result[2] # <<>>
        /\ Len(call_result[1]) + Len(call_result[2])
              <= Len(call_left) + Len(call_right) + 1
        /\ Len(call_result[1]) <= Len(call_left) + 1
        /\ Len(call_result[2]) <= Len(call_right) + 1

\* A Move Left call with non-empty left has returned.
MovedLeft == Moved /\ call_direction = "L" /\ call_left # <<>>

\* right after the write of lines 41-44.
Written ==
    IF call_right = <<>> THEN <<call_write>>
    ELSE <<call_write>> \o Tail(call_right)

\* The last element of left was prepended to the written right and removed
\* from left.
Prepended ==
    /\ call_result[1] = Front(call_left)
    /\ call_result[2] = <<Last(call_left)>> \o Written

Cell(l, r, k) ==
    IF k < 0
    THEN IF 0 - k <= Len(l) THEN l[Len(l) + 1 + k] ELSE Blank
    ELSE IF k + 1 <= Len(r) THEN r[k + 1] ELSE Blank

\* The cells compared on either side of the head.
Window == (0 - (MaxTapeLen + 2))..(MaxTapeLen + 2)

\* C18: for every non-empty right and every left, after move the cell that
\* was under the head holds write_char, every other cell is unchanged, and
\* the head is one cell to the right for 'R', one cell to the left for 'L'.
C18_HeadMovesOneCell ==
    (Moved /\ call_right # <<>>) =>
        LET shift == IF call_direction = "R" THEN 1 ELSE 0 - 1
        IN  \A k \in Window :
               Cell(call_result[1], call_result[2], k - shift)
                  = IF k = 0 THEN call_write
                    ELSE Cell(call_left, call_right, k)

====
